---- MODULE Spec2Model ----
(***************************************************************************)
(* Rule-based analysis and scoring engine of treescan (src/src/analyzer.rs) *)
(*                                                                         *)
(* Number representation.  The code computes in f64; the model computes    *)
(* the same expressions in exact fixed-point / rational arithmetic:        *)
(*   - base_score_impact and weight_multiplier are in tenths               *)
(*     (-3.0 is -30, 2.0 is 20);                                           *)
(*   - score_impact, the deductions and every score are in hundredths      *)
(*     (-6.0 is -600, 10.0 is 1000);                                       *)
(*   - leniency and size_factor are in thousandths (0.3 is 300);           *)
(*   - size_bonus, a product of the last two, is in units of 1e-5;         *)
(*   - a quotient is kept as a fraction [num, den] until it is rounded.    *)
(***************************************************************************)
EXTENDS Integers, Sequences, FiniteSets, TLC

\* ------------------------------------------------------------------ bounds

\* Longest Finding list built by an analyzer assembled with add_rule.
MaxResults == 11

\* Longest Finding list built by one of the three built-in analyzers.
MaxBuiltinResults == 3

\* Line counts of the analysed source text (source_code.lines().count()).
LineCounts == {0, 49, 50, 100, 200, 201, 350, 500, 10000}

\* ------------------------------------------------------------ arithmetic

Abs(x) == IF x < 0 THEN -x ELSE x

Min(a, b) == IF a <= b THEN a ELSE b

Max(a, b) == IF a >= b THEN a ELSE b

\* f64::round on the fraction num/den (den > 0): nearest integer, halves
\* away from zero.
Round(num, den) ==
    IF num >= 0 THEN (2 * num + den) \div (2 * den)
    ELSE -((2 * (-num) + den) \div (2 * den))

\* ---------------------------------------------------------------- Severity

Severity == {"Error", "Warning", "Info", "Style"}

\* Severity::base_score_impact, in tenths.
base_score_impact(severity) ==
    CASE severity = "Error"   -> -30
      [] severity = "Warning" -> -15
      [] severity = "Info"    -> -4
      [] severity = "Style"   -> -2

\* ------------------------------------------------------------ AnalysisRule

\* Weight given by AnalysisRule::new, in tenths.
DefaultWeight == 10

\* AnalysisRule::new(...).  captures is the number of @captures the rule's
\* query binds in one match.
AnalysisRule(name, captures, severity) ==
    [name |-> name, captures |-> captures, severity |-> severity,
     weight_multiplier |-> DefaultWeight]

\* AnalysisRule::with_weight.
with_weight(rule, weight) == [rule EXCEPT !.weight_multiplier = weight]

\* ------------------------------------------------------------ rule sets

new_rust_analyzer ==
    << with_weight(AnalysisRule("syntax_error", 1, "Error"), 20),
       with_weight(AnalysisRule("unwrap_usage", 2, "Warning"), 15),
       with_weight(AnalysisRule("large_function", 2, "Style"), 12) >>

new_javascript_analyzer ==
    << with_weight(AnalysisRule("syntax_error", 1, "Error"), 20),
       with_weight(AnalysisRule("console_log", 3, "Info"), 5),
       with_weight(AnalysisRule("var_usage", 1, "Warning"), 13) >>

new_go_analyzer ==
    << with_weight(AnalysisRule("syntax_error", 1, "Error"), 20),
       with_weight(AnalysisRule("go_missing_error_check", 3, "Warning"), 18),
       with_weight(AnalysisRule("go_unused_variable", 1, "Info"), 7),
       with_weight(AnalysisRule("go_panic_usage", 2, "Warning"), 16),
       with_weight(AnalysisRule("go_large_function", 2, "Style"), 11),
       with_weight(AnalysisRule("go_too_many_parameters", 7, "Style"), 13),
       with_weight(AnalysisRule("go_global_variable", 1, "Info"), 8),
       with_weight(AnalysisRule("go_missing_package_doc", 1, "Info"), 6),
       with_weight(AnalysisRule("go_todo_comment", 1, "Info"), 3),
       with_weight(AnalysisRule("go_empty_if_block", 1, "Style"), 10),
       with_weight(AnalysisRule("go_magic_number", 1, "Style"), 4),
       with_weight(AnalysisRule("go_deep_nesting", 1, "Style"), 14) >>

\* An analyzer assembled by a caller with CodeAnalyzer::new and add_rule:
\* a doubled Error rule, a default-weight Warning rule, a default-weight Info
\* rule under the name missing_docs (which should_report filters), a weighted
\* Style rule and a Style rule given a negative weight.
new_custom_analyzer ==
    << with_weight(AnalysisRule("syntax_error", 1, "Error"), 20),
       AnalysisRule("warning_rule", 1, "Warning"),
       AnalysisRule("missing_docs", 1, "Info"),
       with_weight(AnalysisRule("style_rule", 1, "Style"), 12),
       with_weight(AnalysisRule("negative_weight_rule", 1, "Style"), -10) >>

Analyzers == {"custom", "rust", "javascript", "go"}

RulesOf(a) ==
    CASE a = "custom"     -> new_custom_analyzer
      [] a = "rust"       -> new_rust_analyzer
      [] a = "javascript" -> new_javascript_analyzer
      [] a = "go"         -> new_go_analyzer

ResultBound(a) == IF a = "custom" THEN MaxResults ELSE MaxBuiltinResults

\* ------------------------------------------------------------ tree nodes

\* Bytes past node.end_byte() that is_unchecked_go_error reads.
ErrorCheckWindow == 200

\* Where an idiom occurs relative to a node: <<>> when the source from the
\* node's start on does not hold it, else <<d>> where the first occurrence
\* starting at or after the node's start ends d bytes past the node's end.
IdiomAt(d) == <<d>>

NoIdiom == <<>>

\* What should_report reads of a captured node and the source around it:
\*   rows       end_position().row - start_position().row
\*   parent     kind of node.parent(); "none" when there is no parent
\*   err_nil    where "if err != nil" occurs
\*   error_nil  where "if error != nil" occurs
\*   pub_before the source before the node's start holds "pub fn"
Node(rows, parent, err_nil, error_nil, pub_before) ==
    [rows |-> rows, parent |-> parent, err_nil |-> err_nil,
     error_nil |-> error_nil, pub_before |-> pub_before]

ParentKinds == {"none", "assignment_statement", "block"}

RowSpans == {0, 40, 41, 50, 51}

\* The nodes capture i of a match of the rule may bind, varied in the fields
\* that the rule's filter reads.  The first capture of the two function rules
\* is the @name identifier, which lies on one row; the second is the whole
\* @function.
NodesFor(rule_name, i) ==
    CASE rule_name \in {"large_function", "go_large_function"} ->
            {Node(r, "block", NoIdiom, NoIdiom, FALSE) :
                r \in IF i = 1 THEN {0} ELSE RowSpans}
      [] rule_name = "missing_docs" ->
            {Node(0, "block", NoIdiom, NoIdiom, b) : b \in BOOLEAN}
      [] rule_name = "go_missing_error_check" ->
            {Node(0, p, e[1], e[2], FALSE) :
                p \in ParentKinds,
                e \in {<<NoIdiom, NoIdiom>>,
                       <<IdiomAt(ErrorCheckWindow), NoIdiom>>,
                       <<NoIdiom, IdiomAt(ErrorCheckWindow)>>,
                       <<IdiomAt(ErrorCheckWindow + 1), NoIdiom>>}}
      [] OTHER -> {Node(0, "block", NoIdiom, NoIdiom, FALSE)}

\* text_around.contains(idiom): text_around runs from the node's start to
\* min(node.end_byte() + 200, source_code.len()), and an occurrence always
\* lies inside the source.
window_contains(occurrence) ==
    occurrence # NoIdiom /\ occurrence[1] <= ErrorCheckWindow

\* is_unchecked_go_error returning false when the node has no assignment
\* parent.
is_unchecked_go_error_fail_closed(node) ==
    IF node.parent # "none" /\ node.parent = "assignment_statement"
    THEN ~window_contains(node.err_nil) /\ ~window_contains(node.error_nil)
    ELSE FALSE

\* CodeAnalyzer::is_unchecked_go_error.
is_unchecked_go_error(node) ==
    IF node.parent # "none" /\ node.parent = "assignment_statement"
    THEN ~window_contains(node.err_nil) /\ ~window_contains(node.error_nil)
    ELSE TRUE

\* CodeAnalyzer::should_report.
should_report(rule_name, node) ==
    CASE rule_name = "large_function"         -> node.rows > 50
      [] rule_name = "missing_docs"           -> node.pub_before
      [] rule_name = "go_missing_error_check" -> is_unchecked_go_error(node)
      [] rule_name = "go_large_function"      -> node.rows > 40
      [] OTHER                                -> TRUE

\* ---------------------------------------------------------------- Finding

\* AnalysisResult taking the base impact of the severity and leaving the
\* rule's weight out.
AnalysisResult_unweighted(rule) ==
    [rule_name    |-> rule.name,
     severity     |-> rule.severity,
     score_impact |-> base_score_impact(rule.severity) * DefaultWeight]

\* The AnalysisResult pushed by analyze for one accepted capture of rule.
\* score_impact is in hundredths.
AnalysisResult(rule) ==
    [rule_name    |-> rule.name,
     severity     |-> rule.severity,
     score_impact |-> base_score_impact(rule.severity) * rule.weight_multiplier]

\* Where a pushed AnalysisResult came from: the position of its rule in
\* self.rules, the ordinal of its match among the matches of that rule that
\* pushed something, and the index of its capture in match_.captures.
Origin(rule, match, capture) ==
    [rule |-> rule, match |-> match, capture |-> capture]

\* Number of matches of the rule at rule_pos that have pushed something.
reporting_matches(origin, rule_pos) ==
    Cardinality({origin[j].match :
                    j \in {k \in DOMAIN origin : origin[k].rule = rule_pos}})

\* ---------------------------------------------------------------- scoring

\* base_score of calculate_score (10.0), in hundredths.
base_score == 1000

\* The ScoreBreakdown calculate_score starts from.
EmptyBreakdown ==
    [errors |-> 0, warnings |-> 0, info_issues |-> 0, style_issues |-> 0,
     error_deduction |-> 0, warning_deduction |-> 0, info_deduction |-> 0,
     style_deduction |-> 0, size_bonus |-> 0]

\* count_result adding the signed score_impact (no .abs()).
count_result_signed(b, result) ==
    CASE result.severity = "Error" ->
            [b EXCEPT !.errors = @ + 1,
                      !.error_deduction = @ + result.score_impact]
      [] result.severity = "Warning" ->
            [b EXCEPT !.warnings = @ + 1,
                      !.warning_deduction = @ + result.score_impact]
      [] result.severity = "Info" ->
            [b EXCEPT !.info_issues = @ + 1,
                      !.info_deduction = @ + result.score_impact]
      [] result.severity = "Style" ->
            [b EXCEPT !.style_issues = @ + 1,
                      !.style_deduction = @ + result.score_impact]

\* count_result whose Style arm is a copy of the Info arm.
count_result_style_as_info(b, result) ==
    CASE result.severity = "Error" ->
            [b EXCEPT !.errors = @ + 1,
                      !.error_deduction = @ + Abs(result.score_impact)]
      [] result.severity = "Warning" ->
            [b EXCEPT !.warnings = @ + 1,
                      !.warning_deduction = @ + Abs(result.score_impact)]
      [] result.severity = "Info" ->
            [b EXCEPT !.info_issues = @ + 1,
                      !.info_deduction = @ + Abs(result.score_impact)]
      [] result.severity = "Style" ->
            [b EXCEPT !.info_issues = @ + 1,
                      !.info_deduction = @ + Abs(result.score_impact)]

\* One iteration of the counting loop of calculate_score.
count_result(b, result) ==
    CASE result.severity = "Error" ->
            [b EXCEPT !.errors = @ + 1,
                      !.error_deduction = @ + Abs(result.score_impact)]
      [] result.severity = "Warning" ->
            [b EXCEPT !.warnings = @ + 1,
                      !.warning_deduction = @ + Abs(result.score_impact)]
      [] result.severity = "Info" ->
            [b EXCEPT !.info_issues = @ + 1,
                      !.info_deduction = @ + Abs(result.score_impact)]
      [] result.severity = "Style" ->
            [b EXCEPT !.style_issues = @ + 1,
                      !.style_deduction = @ + Abs(result.score_impact)]

\* The counting loop of calculate_score, from result i on.
RECURSIVE count_issues(_, _, _)
count_issues(b, results, i) ==
    IF i > Len(results) THEN b
    ELSE count_issues(count_result(b, results[i]), results, i + 1)

\* total_deduction of calculate_score, in hundredths.
total_deduction(b) ==
    b.error_deduction + b.warning_deduction + b.info_deduction
        + b.style_deduction

\* leniency capped at 0.5.
leniency_cap_half(line_count) == Min(line_count - 200, 500)

\* leniency without the .min(0.3) cap.
leniency_uncapped(line_count) == line_count - 200

\* leniency of calculate_score for line_count > 200, in thousandths:
\* ((line_count - 200) / 1000).min(0.3).
leniency(line_count) == Min(line_count - 200, 300)

\* size_factor with the small-file test written `line_count <= 50`.
size_factor_le50(line_count) ==
    IF line_count > 200 THEN 1000 + leniency(line_count)
    ELSE IF line_count <= 50 THEN 900
    ELSE 1000

\* size_factor of calculate_score, in thousandths.
size_factor(line_count) ==
    IF line_count > 200 THEN 1000 + leniency(line_count)
    ELSE IF line_count < 50 THEN 900
    ELSE 1000

\* breakdown.size_bonus as the size branch of calculate_score leaves it.
size_bonus(b, line_count) ==
    IF line_count > 200
    THEN leniency(line_count) * (b.info_deduction + b.style_deduction)
    ELSE b.size_bonus

\* adjusted_deduction = total_deduction / size_factor, as a fraction of
\* hundredths.
adjusted_deduction(b, line_count) ==
    [num |-> total_deduction(b) * 1000, den |-> size_factor(line_count)]

\* overall_score without the .max(0.0) clamp.
overall_score_unclamped(b, line_count) ==
    LET adj == adjusted_deduction(b, line_count)
    IN  [num |-> base_score * adj.den - adj.num, den |-> adj.den]

\* overall_score = (base_score - adjusted_deduction).max(0.0), as a fraction
\* of hundredths.
overall_score(b, line_count) ==
    LET adj == adjusted_deduction(b, line_count)
    IN  [num |-> Max(base_score * adj.den - adj.num, 0), den |-> adj.den]

\* rounded_score rounding to two decimal places.
rounded_score_two_places(b, line_count) ==
    LET s == overall_score(b, line_count)
    IN  Round(s.num, s.den)

\* rounded_score = (overall_score * 10.0).round() / 10.0, in hundredths.
rounded_score(b, line_count) ==
    LET s == overall_score(b, line_count)
    IN  Round(s.num, s.den * 10) * 10

\* rating_of with a half-open top band (9.0..10.0).
rating_of_exclusive_top(score) ==
    CASE score >= 900 /\ score < 1000 -> "Excellent"
      [] score >= 750 /\ score <= 890 -> "Good"
      [] score >= 600 /\ score <= 740 -> "Fair"
      [] score >= 400 /\ score <= 590 -> "Poor"
      [] OTHER                        -> "Critical"

\* rating_of whose Good band excludes its lower bound 7.5.
rating_of_open_good(score) ==
    CASE score >= 900 /\ score <= 1000 -> "Excellent"
      [] score > 750 /\ score <= 890   -> "Good"
      [] score >= 600 /\ score <= 740  -> "Fair"
      [] score >= 400 /\ score <= 590  -> "Poor"
      [] OTHER                         -> "Critical"

\* The rating match of get_rating_and_summary; score in hundredths.
rating_of(score) ==
    CASE score >= 900 /\ score <= 1000 -> "Excellent"
      [] score >= 750 /\ score <= 890  -> "Good"
      [] score >= 600 /\ score <= 740  -> "Fair"
      [] score >= 400 /\ score <= 590  -> "Poor"
      [] OTHER                         -> "Critical"

CriticalErrorsMsg == "Code has {} critical errors that need immediate attention"

MultipleWarningsMsg == "Multiple warnings detected - consider addressing them"

CleanupMsg == "Many minor issues found - good opportunity for cleanup"

ExcellentMsg == "Excellent code quality with minimal issues"

GoodMsg == "Good code quality with room for minor improvements"

ImprovementMsg == "Code needs improvement in several areas"

\* A summary string: the text, and the values format! puts in its {} holes.
Summary(text, args) == [text |-> text, args |-> args]

\* summary_of testing `breakdown.errors > 1`.
summary_of_errors_gt1(score, b) ==
    IF b.errors > 1 THEN Summary(CriticalErrorsMsg, <<b.errors>>)
    ELSE IF b.warnings > 5 THEN Summary(MultipleWarningsMsg, <<>>)
    ELSE IF b.info_issues > 10 THEN Summary(CleanupMsg, <<>>)
    ELSE IF score >= 900 THEN Summary(ExcellentMsg, <<>>)
    ELSE IF score >= 750 THEN Summary(GoodMsg, <<>>)
    ELSE Summary(ImprovementMsg, <<>>)

\* summary_of testing `breakdown.warnings >= 5`.
summary_of_warnings_ge5(score, b) ==
    IF b.errors > 0 THEN Summary(CriticalErrorsMsg, <<b.errors>>)
    ELSE IF b.warnings >= 5 THEN Summary(MultipleWarningsMsg, <<>>)
    ELSE IF b.info_issues > 10 THEN Summary(CleanupMsg, <<>>)
    ELSE IF score >= 900 THEN Summary(ExcellentMsg, <<>>)
    ELSE IF score >= 750 THEN Summary(GoodMsg, <<>>)
    ELSE Summary(ImprovementMsg, <<>>)

\* The summary ladder of get_rating_and_summary; score in hundredths.
summary_of(score, b) ==
    IF b.errors > 0 THEN Summary(CriticalErrorsMsg, <<b.errors>>)
    ELSE IF b.warnings > 5 THEN Summary(MultipleWarningsMsg, <<>>)
    ELSE IF b.info_issues > 10 THEN Summary(CleanupMsg, <<>>)
    ELSE IF score >= 900 THEN Summary(ExcellentMsg, <<>>)
    ELSE IF score >= 750 THEN Summary(GoodMsg, <<>>)
    ELSE Summary(ImprovementMsg, <<>>)

\* CodeAnalyzer::get_rating_and_summary.
get_rating_and_summary(score, b) ==
    [rating |-> rating_of(score), summary |-> summary_of(score, b)]

\* CodeAnalyzer::calculate_score.
calculate_score(results, line_count) ==
    LET counted   == count_issues(EmptyBreakdown, results, 1)
        breakdown == [counted EXCEPT !.size_bonus = size_bonus(counted, line_count)]
        rounded   == rounded_score(breakdown, line_count)
        rs        == get_rating_and_summary(rounded, breakdown)
    IN  [overall_score |-> rounded,
         max_score     |-> base_score,
         total_issues  |-> Len(results),
         breakdown     |-> breakdown,
         rating        |-> rs.rating,
         summary       |-> rs.summary]

\* ------------------------------------------------------------ report

\* CodeAnalyzer::format_score_as_json: the report structure.  The fields of an
\* issue that the model's AnalysisResult does not carry are left out.
format_score_as_json(results, score) ==
    [score        |-> score.overall_score,
     max_score    |-> score.max_score,
     rating       |-> score.rating,
     summary      |-> score.summary,
     total_issues |-> score.total_issues,
     breakdown    |->
        [errors       |-> score.breakdown.errors,
         warnings     |-> score.breakdown.warnings,
         info_issues  |-> score.breakdown.info_issues,
         style_issues |-> score.breakdown.style_issues,
         deductions   |->
            [from_errors   |-> score.breakdown.error_deduction,
             from_warnings |-> score.breakdown.warning_deduction,
             from_info     |-> score.breakdown.info_deduction,
             from_style    |-> score.breakdown.style_deduction],
         size_bonus   |-> score.breakdown.size_bonus],
     issues |-> [i \in DOMAIN results |->
                    [rule         |-> results[i].rule_name,
                     severity     |-> results[i].severity,
                     score_impact |-> results[i].score_impact]]]

\* ------------------------------------------------------- command line

Commands == {"Parse", "Analyze"}

\* command of a run that does not come from main: a caller of
\* analyze_code_with_analyzer inside the crate.
NoCommand == "none"

\* Extension strings as Path::extension yields them.
ExtensionStrings ==
    {"rs", "java", "zig", "c", "h", "js", "jsx", "ts", "tsx", "cpp", "cc",
     "cxx", "hpp", "hxx", "go", "txt", "py", "",
     "RS", "Java", "JSX", "Hpp"}

\* path.extension()?.to_str()?: <<>> for a path without extension.
Extensions == {<<>>} \cup {<<e>> : e \in ExtensionStrings}

\* str::to_lowercase on the extension strings.
to_lowercase(e) ==
    CASE e = "RS"   -> "rs"
      [] e = "Java" -> "java"
      [] e = "JSX"  -> "jsx"
      [] e = "Hpp"  -> "hpp"
      [] OTHER      -> e

\* Option<String>: <<>> is None, <<x>> is Some(x).
None == <<>>

Some(x) == <<x>>

\* infer_language_from_path (main.rs); extension is the Option that
\* path.extension()?.to_str()? yields.
infer_language_from_path(extension, command) ==
    IF extension = <<>> THEN None
    ELSE LET e == to_lowercase(extension[1])
         IN  CASE e = "rs" -> Some("Rust")
               [] e = "java" ->
                     IF command = "Parse" THEN Some("Java") ELSE None
               [] e = "zig" ->
                     IF command = "Parse" THEN Some("Zig") ELSE None
               [] e \in {"c", "h"} ->
                     IF command = "Parse" THEN Some("C") ELSE None
               [] e \in {"js", "jsx"} -> Some("JavaScript")
               [] e \in {"ts", "tsx"} ->
                     IF command = "Parse" THEN Some("TypeScript") ELSE None
               [] e \in {"cpp", "cc", "cxx", "hpp", "hxx"} ->
                     IF command = "Parse" THEN Some("C++") ELSE None
               [] e = "go" ->
                     IF command = "Parse" THEN None ELSE Some("Go")
               [] OTHER -> None

\* The analyzer main hands to analyze_code_with_analyzer for a language
\* (analyze_rust_code, analyze_go_code, analyze_js_code of lib.rs).
analyzer_for(language) ==
    CASE language = "Rust"       -> "rust"
      [] language = "Go"         -> "go"
      [] language = "JavaScript" -> "javascript"

\* ------------------------------------------------------------------- state

VARIABLES
    command,      \* Command of main, NoCommand for a run not started by main
    extension,    \* path.extension() of the file path given to main
    analyzer,     \* which rule set self.rules holds, "unset" before main
                  \* has chosen one
    line_count,   \* source_code.lines().count()
    rule_idx,     \* number of rules whose Query::new has succeeded; the rule
                  \* of the current iteration of `for rule in &self.rules`
    results,      \* the Vec<AnalysisResult> analyze is building
    origin,       \* history: where each element of results came from
    capture_idx,  \* captures of the current match_ already handled by
                  \* `for capture in match_.captures`; 0 between matches
    match_base,   \* history: length of results when the current match_ began
    last_node,    \* <<node>> for the node of the latest capture of the
                  \* current rule, <<>> before its first capture
    score,        \* the CodeScore of analyze_with_score, NoScore before it
    error,        \* the Err a fallible call has returned, "none" if none
    dropped,      \* history: length of results when an early return dropped it
    output,       \* what the exported entry point returned: NotReturned,
                  \* NullPtr or the report
    stdout,       \* what main printed with println!("{}", c_str)
    exit_code,    \* process exit status, -1 while running
    pc

vars == <<command, extension, analyzer, line_count, rule_idx, results, origin,
          capture_idx, match_base, last_node, score, error, dropped, output,
          stdout, exit_code, pc>>

\* The loop variables of analyze below the rule position.
loop_vars == <<capture_idx, match_base, last_node>>

NoScore == [overall_score |-> -1]

NotReturned == [ptr |-> "not returned"]

NullPtr == [ptr |-> "null"]

Nothing == [printed |-> "nothing"]

rules == RulesOf(analyzer)

Init ==
    /\ \/ /\ command \in Commands
          /\ extension \in Extensions
          /\ analyzer = "unset"
          /\ pc = "main"
       \/ /\ command = NoCommand
          /\ extension = <<>>
          /\ analyzer = "custom"
          /\ pc = "read"
    /\ line_count \in LineCounts
    /\ rule_idx = 0
    /\ results = <<>>
    /\ origin = <<>>
    /\ capture_idx = 0
    /\ match_base = 0
    /\ last_node = <<>>
    /\ score = NoScore
    /\ error = "none"
    /\ dropped = 0
    /\ output = NotReturned
    /\ stdout = Nothing
    /\ exit_code = -1

\* main, from the language inference to the call of the exported function:
\* an unsupported extension exits with status 1, Parse goes to parse_ast,
\* Analyze picks the analyzer of the language.
InferLanguage ==
    /\ pc = "main"
    /\ LET language == infer_language_from_path(extension, command)
       IN  IF language = None
           THEN /\ exit_code' = 1
                /\ pc' = "exited"
                /\ UNCHANGED analyzer
           ELSE IF command = "Parse"
           THEN /\ pc' = "parse_ast"
                /\ UNCHANGED <<analyzer, exit_code>>
           ELSE /\ analyzer' = analyzer_for(language[1])
                /\ pc' = "read"
                /\ UNCHANGED exit_code
    /\ UNCHANGED <<command, extension, line_count, rule_idx, results, origin,
                   loop_vars, score, error, dropped, output, stdout>>

\* parse_ast (ast.rs) and the end of main for the Parse command: the tree is
\* printed and main returns, or reading the file or setting the language
\* fails, parse_ast returns null and main exits with status 1.
ParseAst ==
    /\ pc = "parse_ast"
    /\ \/ /\ error' = "none"
          /\ output' = [ptr |-> "ast"]
          /\ stdout' = [printed |-> "ast"]
          /\ exit_code' = 0
       \/ /\ error' \in {"io", "language"}
          /\ output' = NullPtr
          /\ stdout' = Nothing
          /\ exit_code' = 1
    /\ pc' = "exited"
    /\ UNCHANGED <<command, extension, analyzer, line_count, rule_idx,
                   results, origin, loop_vars, score, dropped>>

\* An early return with Err(kind): the locals of analyze are dropped,
\* analyze_with_score and run_analysis pass the error on with `?` and
\* analyze_code_with_analyzer returns a null pointer.
fail_with(kind) ==
    /\ error' = kind
    /\ dropped' = Len(results)
    /\ results' = <<>>
    /\ origin' = <<>>
    /\ capture_idx' = 0
    /\ match_base' = 0
    /\ last_node' = <<>>
    /\ output' = NullPtr
    /\ pc' = "failed"
    /\ UNCHANGED <<command, extension, analyzer, line_count, rule_idx, score,
                   stdout, exit_code>>

\* run_analysis: fs::read_to_string succeeds.
ReadSource ==
    /\ pc = "read"
    /\ pc' = "set_language"
    /\ UNCHANGED <<command, extension, analyzer, line_count, rule_idx,
                   results, origin, loop_vars, score, error, dropped, output,
                   stdout, exit_code>>

\* run_analysis: fs::read_to_string fails.
ReadError ==
    /\ pc = "read"
    /\ fail_with("io")

\* analyze: parser.set_language succeeds and the source is parsed.
SetLanguage ==
    /\ pc = "set_language"
    /\ pc' = "analyze"
    /\ UNCHANGED <<command, extension, analyzer, line_count, rule_idx,
                   results, origin, loop_vars, score, error, dropped, output,
                   stdout, exit_code>>

\* analyze: parser.set_language fails.
SetLanguageError ==
    /\ pc = "set_language"
    /\ fail_with("language")

\* The for loop of analyze takes the next rule and Query::new compiles its
\* pattern.
NextRule ==
    /\ pc = "analyze"
    /\ rule_idx < Len(rules)
    /\ capture_idx = 0
    /\ rule_idx' = rule_idx + 1
    /\ last_node' = <<>>
    /\ UNCHANGED <<command, extension, analyzer, line_count, results, origin,
                   capture_idx, match_base, score, error, dropped, output,
                   stdout, exit_code, pc>>

\* QueryError whose rule is skipped and the loop goes on.
QueryError_skipped ==
    /\ pc = "analyze"
    /\ rule_idx < Len(rules)
    /\ capture_idx = 0
    /\ rule_idx' = rule_idx + 1
    /\ last_node' = <<>>
    /\ error' = "query"
    /\ UNCHANGED <<command, extension, analyzer, line_count, results, origin,
                   capture_idx, match_base, score, dropped, output, stdout,
                   exit_code, pc>>

\* The for loop of analyze takes the next rule and Query::new fails on its
\* pattern.
QueryError ==
    /\ pc = "analyze"
    /\ rule_idx < Len(rules)
    /\ capture_idx = 0
    /\ fail_with("query")

\* ProcessCapture putting the new result in front of the list.
ProcessCapture_prepending ==
    /\ pc = "analyze"
    /\ rule_idx >= 1
    /\ capture_idx = 0 => Len(results) < ResultBound(analyzer)
    /\ LET rule    == rules[rule_idx]
           i       == capture_idx + 1
           base    == IF capture_idx = 0 THEN Len(results) ELSE match_base
           ordinal == IF Len(results) > base
                      THEN origin[1].match
                      ELSE reporting_matches(origin, rule_idx) + 1
       IN  /\ \E node \in NodesFor(rule.name, i) :
                 /\ last_node' = <<node>>
                 /\ IF should_report(rule.name, node)
                    THEN /\ results' = <<AnalysisResult(rule)>> \o results
                         /\ origin' = <<Origin(rule_idx, ordinal, i)>> \o origin
                    ELSE UNCHANGED <<results, origin>>
           /\ capture_idx' = IF i = rule.captures THEN 0 ELSE i
           /\ match_base' = IF i = rule.captures THEN 0 ELSE base
    /\ UNCHANGED <<command, extension, analyzer, line_count, rule_idx, score,
                   error, dropped, output, stdout, exit_code, pc>>

\* One iteration of `for capture in match_.captures`: the next capture of
\* the current match (of a new match from matches.next() when the previous
\* one is finished) is filtered by should_report and, if accepted, pushed.
ProcessCapture ==
    /\ pc = "analyze"
    /\ rule_idx >= 1
    /\ capture_idx = 0 => Len(results) < ResultBound(analyzer)
    /\ LET rule    == rules[rule_idx]
           i       == capture_idx + 1
           base    == IF capture_idx = 0 THEN Len(results) ELSE match_base
           ordinal == IF Len(results) > base
                      THEN origin[Len(origin)].match
                      ELSE reporting_matches(origin, rule_idx) + 1
       IN  /\ \E node \in NodesFor(rule.name, i) :
                 /\ last_node' = <<node>>
                 /\ IF should_report(rule.name, node)
                    THEN /\ results' = Append(results, AnalysisResult(rule))
                         /\ origin' = Append(origin, Origin(rule_idx, ordinal, i))
                    ELSE UNCHANGED <<results, origin>>
           /\ capture_idx' = IF i = rule.captures THEN 0 ELSE i
           /\ match_base' = IF i = rule.captures THEN 0 ELSE base
    /\ UNCHANGED <<command, extension, analyzer, line_count, rule_idx, score,
                   error, dropped, output, stdout, exit_code, pc>>

\* The rules are exhausted: analyze returns Ok(results), analyze_with_score
\* calls calculate_score on them, run_analysis formats the report and
\* analyze_code_with_analyzer returns it.
AnalyzeWithScore ==
    /\ pc = "analyze"
    /\ rule_idx = Len(rules)
    /\ capture_idx = 0
    /\ score' = calculate_score(results, line_count)
    /\ output' = format_score_as_json(results, score')
    /\ last_node' = <<>>
    /\ pc' = "scored"
    /\ UNCHANGED <<command, extension, analyzer, line_count, rule_idx,
                   results, origin, capture_idx, match_base, error, dropped,
                   stdout, exit_code>>

\* The end of main for the Analyze command: a null result exits with
\* status 1 and prints no report, any other result is printed.
MainExit ==
    /\ command = "Analyze"
    /\ pc \in {"scored", "failed"}
    /\ IF output = NullPtr
       THEN /\ exit_code' = 1
            /\ UNCHANGED stdout
       ELSE /\ stdout' = output
            /\ exit_code' = 0
    /\ pc' = "exited"
    /\ UNCHANGED <<command, extension, analyzer, line_count, rule_idx,
                   results, origin, loop_vars, score, error, dropped, output>>

Next ==
    \/ InferLanguage
    \/ ParseAst
    \/ ReadSource
    \/ ReadError
    \/ SetLanguage
    \/ SetLanguageError
    \/ NextRule
    \/ QueryError
    \/ ProcessCapture
    \/ AnalyzeWithScore
    \/ MainExit

Spec == Init /\ [][Next]_vars

\* Longest match of the rule sets, in captures.
MaxCaptures == 7

TypeOK ==
    /\ command \in Commands \cup {NoCommand}
    /\ extension \in Extensions
    /\ analyzer \in Analyzers \cup {"unset"}
    /\ line_count \in LineCounts
    /\ analyzer \in Analyzers => rule_idx \in 0..Len(rules)
    /\ analyzer \in Analyzers =>
          Len(results) < ResultBound(analyzer) + MaxCaptures
    /\ Len(origin) = Len(results)
    /\ error \in {"none", "io", "language", "query"}
    /\ exit_code \in {-1, 0, 1}
    /\ pc \in {"main", "parse_ast", "read", "set_language", "analyze",
               "scored", "failed", "exited"}

\* ------------------------------------------------- properties of scoring

\* Number of Findings of a severity in a list, counted off the list itself.
NumOf(list, severity) ==
    Cardinality({i \in DOMAIN list : list[i].severity = severity})

\* Sum of |score_impact| over the Findings of a severity in a list.
RECURSIVE AbsSum(_, _)
AbsSum(list, severity) ==
    IF list = <<>> THEN 0
    ELSE (IF Head(list).severity = severity
          THEN Abs(Head(list).score_impact) ELSE 0)
         + AbsSum(Tail(list), severity)

\* Sum of |score_impact| over a whole list.
AbsSumAll(list) ==
    AbsSum(list, "Error") + AbsSum(list, "Warning") + AbsSum(list, "Info")
        + AbsSum(list, "Style")

\* Every Finding a rule of any of the rule sets can produce.
AnyFinding ==
    UNION {{AnalysisResult(RulesOf(a)[r]) : r \in DOMAIN RulesOf(a)} :
           a \in Analyzers}

SyntaxErrorFinding ==
    [rule_name |-> "syntax_error", severity |-> "Error", score_impact |-> -600]

WarningFinding ==
    [rule_name |-> "warning_rule", severity |-> "Warning", score_impact |-> -150]

\* C1: overall_score always lies in [0.0, 10.0] and max_score is 10.0; when
\* the adjusted deduction exceeds 10.0 the score is exactly 0.0.
C1_ScoreBounded ==
    pc = "scored" =>
        /\ score.max_score = 1000
        /\ score.overall_score >= 0
        /\ score.overall_score <= score.max_score
        /\ (AbsSumAll(results) * 1000 > 1000 * size_factor(line_count)
                => score.overall_score = 0)

\* A list of eleven or more Error Findings (66.0 and more of deduction) has
\* been scored 0.0.
C1_Witness ==
    /\ pc = "scored"
    /\ NumOf(results, "Error") >= 11
    /\ AbsSumAll(results) >= 6600
    /\ score.overall_score = 0

\* C2: the empty Finding list scores 10.0 and is rated "Excellent" for every
\* line count.
C2_EmptyIsExcellent ==
    (pc = "scored" /\ results = <<>>) =>
        /\ score.overall_score = 1000
        /\ score.rating = "Excellent"

\* The empty list has been scored for a source of fewer than 50 lines.
C2_Witness ==
    /\ pc = "scored"
    /\ results = <<>>
    /\ line_count < 50
    /\ score.rating = "Excellent"

\* C3: for the scored list and its line count, appending any Finding gives an
\* overall_score that is less than or equal to the score of the list.
C3_Monotone ==
    pc = "scored" =>
        \A f \in AnyFinding :
            calculate_score(Append(results, f), line_count).overall_score
                <= score.overall_score

\* A non-empty scored list whose score strictly drops when a Finding with a
\* positive score_impact (negative weight) is appended.
C3_Witness ==
    /\ pc = "scored"
    /\ results # <<>>
    /\ \E f \in AnyFinding :
          /\ f.score_impact > 0
          /\ calculate_score(Append(results, f), line_count).overall_score
                < score.overall_score

\* C4: the rating is decided by the rounded overall_score alone, with closed
\* bands [9.0,10.0] Excellent, [7.5,8.9] Good, [6.0,7.4] Fair, [4.0,5.9] Poor
\* and Critical for every other score.
C4_RatingBands ==
    pc = "scored" =>
        LET s == score.overall_score
        IN  /\ (s \in 900..1000 <=> score.rating = "Excellent")
            /\ (s \in 750..890  <=> score.rating = "Good")
            /\ (s \in 600..740  <=> score.rating = "Fair")
            /\ (s \in 400..590  <=> score.rating = "Poor")
            /\ (s \notin 400..1000 <=> score.rating = "Critical")

\* A score on the lower bound 7.5 of the Good band has been rated "Good".
C4_Witness ==
    /\ pc = "scored"
    /\ score.overall_score = 750
    /\ score.rating = "Good"

\* The list holding exactly one Error Finding of score_impact -6.0, scored
\* for a 100-line source.
OneErrorScenario ==
    /\ pc = "scored"
    /\ results = <<SyntaxErrorFinding>>
    /\ line_count = 100

\* C5 as stated: one Error Finding of -6.0 on 100 lines gives size_factor 1.0,
\* adjusted deduction 6.0, overall_score 4.0, rating "Critical" and a summary
\* holding "1 critical errors".
C5_Original ==
    OneErrorScenario =>
        /\ size_factor(line_count) = 1000
        /\ adjusted_deduction(score.breakdown, line_count)
              = [num |-> 600 * 1000, den |-> 1000]
        /\ score.overall_score = 400
        /\ score.rating = "Critical"
        /\ score.summary = Summary(CriticalErrorsMsg, <<1>>)

\* C5 as amended: the same scenario gives size_factor 1.0, adjusted deduction
\* 6.0, overall_score 4.0, rating "Poor" (4.0 is the closed lower bound of
\* the Poor band) and a summary holding "1 critical errors".
C5_OneErrorIsPoor ==
    OneErrorScenario =>
        /\ size_factor(line_count) = 1000
        /\ adjusted_deduction(score.breakdown, line_count)
              = [num |-> 600 * 1000, den |-> 1000]
        /\ score.overall_score = 400
        /\ score.rating = "Poor"
        /\ score.summary = Summary(CriticalErrorsMsg, <<1>>)

\* The one-Error scenario has been scored.
C5_Witness ==
    /\ OneErrorScenario
    /\ score.breakdown.errors = 1
    /\ score.total_issues = 1

\* The summary the first-match ladder selects, read off the Finding list.
LadderSummary ==
    LET e == NumOf(results, "Error")
        w == NumOf(results, "Warning")
        i == NumOf(results, "Info")
        s == score.overall_score
    IN  CASE e > 0    -> Summary(CriticalErrorsMsg, <<e>>)
          [] e = 0 /\ w > 5  -> Summary(MultipleWarningsMsg, <<>>)
          [] e = 0 /\ w <= 5 /\ i > 10 -> Summary(CleanupMsg, <<>>)
          [] e = 0 /\ w <= 5 /\ i <= 10 /\ s >= 900 -> Summary(ExcellentMsg, <<>>)
          [] e = 0 /\ w <= 5 /\ i <= 10 /\ s < 900 /\ s >= 750 ->
                Summary(GoodMsg, <<>>)
          [] OTHER -> Summary(ImprovementMsg, <<>>)

\* Six Warning Findings of -1.5 each, scored for a 100-line source.
SixWarningsScenario ==
    /\ pc = "scored"
    /\ results = [k \in 1..6 |-> WarningFinding]
    /\ line_count = 100

\* C6: the summary is the first match of the ladder errors > 0, warnings > 5,
\* info_issues > 10, score >= 9.0, score >= 7.5, otherwise; six Warnings of
\* -1.5 on 100 lines give overall_score 1.0 and the multiple-warnings
\* message, and exactly five warnings never give that message.
C6_SummaryLadder ==
    pc = "scored" =>
        /\ score.summary = LadderSummary
        /\ (SixWarningsScenario =>
                /\ score.overall_score = 100
                /\ score.summary = Summary(MultipleWarningsMsg, <<>>))
        /\ (NumOf(results, "Warning") = 5
                => score.summary.text # MultipleWarningsMsg)

\* The six-Warning scenario has been scored with the multiple-warnings
\* summary.
C6_Witness ==
    /\ SixWarningsScenario
    /\ score.breakdown.warnings = 6
    /\ score.summary.text = MultipleWarningsMsg

\* C7: each count of the breakdown is the number of Findings of its severity,
\* each deduction sum is the sum of |score_impact| over them, and
\* total_issues is the length of the list, hence the sum of the four counts.
C7_BreakdownMatchesFindings ==
    pc = "scored" =>
        LET b == score.breakdown
        IN  /\ b.errors = NumOf(results, "Error")
            /\ b.warnings = NumOf(results, "Warning")
            /\ b.info_issues = NumOf(results, "Info")
            /\ b.style_issues = NumOf(results, "Style")
            /\ b.error_deduction = AbsSum(results, "Error")
            /\ b.warning_deduction = AbsSum(results, "Warning")
            /\ b.info_deduction = AbsSum(results, "Info")
            /\ b.style_deduction = AbsSum(results, "Style")
            /\ score.total_issues = Len(results)
            /\ score.total_issues
                  = b.errors + b.warnings + b.info_issues + b.style_issues

\* A scored list holding Findings of all four severities, one of them with a
\* positive score_impact.
C7_Witness ==
    /\ pc = "scored"
    /\ \A sev \in Severity : NumOf(results, sev) >= 1
    /\ \E i \in DOMAIN results : results[i].score_impact > 0
    /\ score.total_issues = Len(results)

\* The size factor the line count n calls for, in thousandths.
ExpectedSizeFactor(n) ==
    IF n < 50 THEN 900
    ELSE IF n <= 200 THEN 1000
    ELSE IF n - 200 < 300 THEN 1000 + (n - 200)
    ELSE 1300

\* C8: the size factor is 0.9 below 50 lines, 1.0 from 50 to 200 lines and
\* 1 + min((n - 200)/1000, 0.3) above; it never exceeds 1.3, is 1.3 for every
\* n >= 500, and the score is the total deduction divided by it.
C8_SizeFactor ==
    /\ size_factor(line_count) = ExpectedSizeFactor(line_count)
    /\ size_factor(line_count) <= 1300
    /\ (line_count >= 500 => size_factor(line_count) = 1300)
    /\ (line_count \in {50, 200} => size_factor(line_count) = 1000)
    /\ (pc = "scored" =>
            score.overall_score
              = Round(Max(1000 * ExpectedSizeFactor(line_count)
                            - 1000 * AbsSumAll(results), 0),
                      10 * ExpectedSizeFactor(line_count)) * 10)

\* A non-empty list has been scored for a 10,000-line source with the factor
\* at its cap of 1.3.
C8_Witness ==
    /\ pc = "scored"
    /\ line_count = 10000
    /\ results # <<>>
    /\ size_factor(line_count) = 1300
    /\ score.overall_score < 1000

\* A scored list of Style Findings only, for a source of 50 to 200 lines.
StyleOnlyMidSize ==
    /\ pc = "scored"
    /\ \A i \in DOMAIN results : results[i].severity = "Style"
    /\ line_count >= 50
    /\ line_count <= 200
    /\ AbsSumAll(results) < 1000

\* C9: a Style-only list of total deduction D < 10 on 50 to 200 lines scores
\* round((10 - D) * 10) / 10.
C9_StyleOnlyExact ==
    StyleOnlyMidSize =>
        score.overall_score = Round(1000 - AbsSumAll(results), 10) * 10

\* A Style-only list on 50 lines whose deduction is not a whole number of
\* tenths, and whose score was rounded up.
C9_Witness ==
    /\ StyleOnlyMidSize
    /\ line_count = 50
    /\ AbsSumAll(results) % 10 # 0
    /\ score.overall_score > 1000 - AbsSumAll(results)

\* C10 as stated: a list of Error and Warning Findings only gets the same
\* overall_score on more than 200 lines as on 50 to 200 lines.
C10_Original ==
    (/\ pc = "scored"
     /\ line_count > 200
     /\ \A i \in DOMAIN results : results[i].severity \in {"Error", "Warning"})
        => \A n \in {m \in LineCounts : m >= 50 /\ m <= 200} :
              score.overall_score
                 = calculate_score(results, n).overall_score

\* ------------------------------------------------ properties of analysis

BuiltinAnalyzers == {"rust", "javascript", "go"}

\* Number of elements of a Finding list that carry a rule name.
NumNamed(list, name) ==
    Cardinality({i \in DOMAIN list : list[i].rule_name = name})

\* C11 as stated: in the list analyze returns, the number of Findings
\* carrying a rule's name is the number of matches of that rule that passed
\* the Match Filter, also for a pattern with several captures.
C11_Original ==
    (pc = "scored" /\ analyzer \in Analyzers) =>
        \A r \in DOMAIN rules :
            NumNamed(results, rules[r].name) = reporting_matches(origin, r)

\* C12: once a fatal error has occurred (file not read, language not set, a
\* pattern not compiled) the run is over with a null result: the collected
\* Findings are gone, no score and no report exist, and main prints no
\* report and exits with status 1; the failing rule is never skipped.
C12_NoPartialReport ==
    error # "none" =>
        /\ pc \in {"failed", "exited"}
        /\ output = NullPtr
        /\ score = NoScore
        /\ results = <<>>
        /\ stdout = Nothing
        /\ (pc = "exited" => exit_code = 1)

\* The pattern of a rule after the first failed to compile when Findings had
\* been collected, and main has exited with status 1 without a report.
C12_Witness ==
    /\ pc = "exited"
    /\ error = "query"
    /\ rule_idx >= 1
    /\ dropped > 0
    /\ output = NullPtr
    /\ stdout = Nothing
    /\ exit_code = 1

\* The extensions the usage text of main lists for a command.
UsageExtensions(cmd) ==
    IF cmd = "Analyze" THEN {"rs", "go", "js", "jsx"}
    ELSE {"rs", "java", "zig", "c", "h", "js", "jsx", "ts", "tsx", "cpp",
          "cc", "cxx"}

\* The extension of the run is one the usage text lists for its command, in
\* any letter case.
ListedInUsage ==
    /\ extension # <<>>
    /\ \/ extension[1] \in UsageExtensions(command)
       \/ extension[1] = "RS"
       \/ extension[1] = "JSX"
       \/ extension[1] = "Java" /\ command = "Parse"

\* main has turned the path down: it exited with status 1 before calling an
\* exported function.
RejectedByMain ==
    pc = "exited" /\ exit_code = 1 /\ output = NotReturned

\* C13 as stated: infer_language_from_path gives a language exactly for the
\* extensions of the usage text of the command, in any letter case, and None
\* for every other path.
C13_Original ==
    (command \in Commands /\ pc # "main") =>
        /\ RejectedByMain <=> ~ListedInUsage
        /\ (infer_language_from_path(extension, command) # None)
              <=> ListedInUsage

\* The node is one the unchecked-error filter turns down: its parent is an
\* assignment statement and one of the two idioms ends within 200 bytes past
\* the node's end.
TurnedDown(node) ==
    /\ node.parent = "assignment_statement"
    /\ \/ node.err_nil # <<>> /\ node.err_nil[1] <= 200
       \/ node.error_nil # <<>> /\ node.error_nil[1] <= 200

\* A step of the capture loop on the rule go_missing_error_check.
GoErrorCheckStep ==
    /\ pc = "analyze"
    /\ pc' = "analyze"
    /\ analyzer = "go"
    /\ rule_idx' = rule_idx
    /\ rule_idx >= 1
    /\ rules[rule_idx].name = "go_missing_error_check"
    /\ last_node' # <<>>

\* C14: every capture of go_missing_error_check is pushed as a Finding of that
\* rule unless its parent is an assignment statement and the text up to 200
\* bytes past its end holds "if err != nil" or "if error != nil"; a node with
\* no parent or another parent is always pushed.
C14_FailOpen ==
    [][GoErrorCheckStep =>
          IF TurnedDown(last_node'[1])
          THEN results' = results
          ELSE /\ results' = Append(results,
                     [rule_name |-> "go_missing_error_check",
                      severity |-> "Warning", score_impact |-> -270])
               /\ (last_node'[1].parent # "assignment_statement"
                      => Len(results') = Len(results) + 1)]_vars

\* A capture without a parent, followed within the window by
\* "if err != nil", has been pushed as the first Finding of its match.
C14_Witness ==
    /\ pc = "analyze"
    /\ analyzer = "go"
    /\ rule_idx = 2
    /\ capture_idx = 1
    /\ last_node # <<>>
    /\ last_node[1].parent = "none"
    /\ last_node[1].err_nil = <<200>>
    /\ Len(results) = match_base + 1
    /\ results[Len(results)].rule_name = "go_missing_error_check"

\* Position in self.rules of the rule of a name.
RulePos(name) == CHOOSE r \in DOMAIN rules : rules[r].name = name

\* origin a comes before origin b: earlier rule, then earlier match, then
\* earlier capture.
OriginBefore(a, b) ==
    \/ a.rule < b.rule
    \/ a.rule = b.rule /\ a.match < b.match
    \/ a.rule = b.rule /\ a.match = b.match /\ a.capture < b.capture

\* A Finding list and its origins are in rule, match and capture order.
InAnalysisOrder(list, from) ==
    /\ Len(from) = Len(list)
    /\ \A i \in DOMAIN list : list[i].rule_name = rules[from[i].rule].name
    /\ \A i, j \in DOMAIN list :
          i < j => /\ RulePos(list[i].rule_name) <= RulePos(list[j].rule_name)
                   /\ OriginBefore(from[i], from[j])

\* list is an initial part of longer.
IsPrefix(list, longer) ==
    /\ Len(list) <= Len(longer)
    /\ \A i \in DOMAIN list : longer[i] = list[i]

\* C15: the Findings are in rule-set order, then match order, then capture
\* order, whatever their severity, and every step of an analysis that is not
\* aborted leaves the Findings already pushed in place.
C15_AppendOnlyInRuleOrder ==
    [][/\ pc' \in {"analyze", "scored"} => InAnalysisOrder(results', origin')
       /\ pc' # "failed" => IsPrefix(results, results')]_vars

\* A returned list in which an Info Finding of an earlier rule stands before
\* a Warning Finding of a later rule.
C15_Witness ==
    /\ pc = "scored"
    /\ analyzer \in BuiltinAnalyzers
    /\ \E i, j \in DOMAIN results :
          /\ i < j
          /\ results[i].severity = "Info"
          /\ results[j].severity = "Warning"
          /\ origin[i].rule < origin[j].rule

\* The base impact of a severity, in hundredths per unit of weight in tenths.
StatedBaseImpact(severity) ==
    CASE severity = "Error"   -> -30
      [] severity = "Warning" -> -15
      [] severity = "Info"    -> -4
      [] severity = "Style"   -> -2

\* C16: each built-in rule set has a rule syntax_error of severity Error and
\* weight 2.0; every Finding has score_impact = base impact of its severity
\* times the weight of its rule; every syntax_error Finding has -6.0 and every
\* Finding of a built-in set has score_impact <= 0.
C16_BuiltinImpacts ==
    /\ \A a \in BuiltinAnalyzers :
          \E r \in DOMAIN RulesOf(a) :
              /\ RulesOf(a)[r].name = "syntax_error"
              /\ RulesOf(a)[r].severity = "Error"
              /\ RulesOf(a)[r].weight_multiplier = 20
    /\ (analyzer \in Analyzers /\ pc \in {"analyze", "scored"}) =>
          \A i \in DOMAIN results :
              LET rule == rules[origin[i].rule]
              IN  /\ results[i].severity = rule.severity
                  /\ results[i].score_impact
                        = StatedBaseImpact(rule.severity) * rule.weight_multiplier
                  /\ (results[i].rule_name = "syntax_error"
                         => results[i].score_impact = -600)
                  /\ (analyzer \in BuiltinAnalyzers
                         => results[i].score_impact <= 0)

\* A built-in analyzer has returned a syntax_error Finding of -6.0 together
\* with a Finding of a rule of another weight.
C16_Witness ==
    /\ pc = "scored"
    /\ analyzer \in BuiltinAnalyzers
    /\ \E i, j \in DOMAIN results :
          /\ results[i].rule_name = "syntax_error"
          /\ results[i].score_impact = -600
          /\ results[j].rule_name # "syntax_error"
          /\ rules[origin[j].rule].weight_multiplier \notin {10, 20}

\* C17: the score is a whole number of tenths, so it never lies in a gap
\* between bands, and the rating is Critical iff score < 4.0, Poor iff
\* 4.0 <= score <= 5.9, Fair iff 6.0 <= score <= 7.4, Good iff
\* 7.5 <= score <= 8.9 and Excellent iff score >= 9.0.
C17_NoGapIsHit ==
    pc = "scored" =>
        LET s == score.overall_score
        IN  /\ s % 10 = 0
            /\ ~(s > 590 /\ s < 600)
            /\ ~(s > 740 /\ s < 750)
            /\ ~(s > 890 /\ s < 900)
            /\ (score.rating = "Critical" <=> s < 400)
            /\ (score.rating = "Poor" <=> (s >= 400 /\ s <= 590))
            /\ (score.rating = "Fair" <=> (s >= 600 /\ s <= 740))
            /\ (score.rating = "Good" <=> (s >= 750 /\ s <= 890))
            /\ (score.rating = "Excellent" <=> s >= 900)

\* A list whose score before rounding lies strictly between 5.9 and 6.0 has
\* been scored.
C17_Witness ==
    /\ pc = "scored"
    /\ LET u == overall_score(score.breakdown, line_count)
       IN  /\ u.num > 590 * u.den
           /\ u.num < 600 * u.den
    /\ score.overall_score \in {590, 600}
    /\ score.rating \in {"Poor", "Fair"}

\* A report of a built-in analyzer with at least one syntax_error Finding.
HasSyntaxError ==
    /\ pc = "scored"
    /\ analyzer \in BuiltinAnalyzers
    /\ \E i \in DOMAIN results : results[i].rule_name = "syntax_error"

\* C18: a built-in report with a syntax_error Finding scores at most 5.4 (at
\* most 4.0 on 50 to 200 lines, at most 3.3 below 50 lines), is rated "Poor"
\* or "Critical" and carries the critical-errors summary.
C18_SyntaxErrorCapsScore ==
    HasSyntaxError =>
        /\ score.overall_score <= 540
        /\ (line_count >= 50 /\ line_count <= 200 => score.overall_score <= 400)
        /\ (line_count < 50 => score.overall_score <= 330)
        /\ score.rating \in {"Poor", "Critical"}
        /\ score.summary.text = CriticalErrorsMsg

\* A built-in report with one syntax_error Finding on 500 lines or more has
\* reached the cap of 5.4 and is rated "Poor".
C18_Witness ==
    /\ HasSyntaxError
    /\ line_count >= 500
    /\ score.overall_score = 540
    /\ score.rating = "Poor"
    /\ score.summary = Summary(CriticalErrorsMsg, <<1>>)

====
